---- MODULE Spec2Model ----
(***************************************************************************)
(* Plan composition pipeline of the personalised workout planner:          *)
(*   substitute_exercises -> refine_predictions -> call_llm_for_plan       *)
(* (model/expert_rules.py, model/llm_planner.py, api_server.py /plan).     *)
(*                                                                         *)
(* Strings are sequences of one-character strings so that lower(), strip() *)
(* and the substring test `a in b` are computed, not assumed.  Prediction  *)
(* maps are Python dicts: insertion-ordered sequences of (name, ref)       *)
(* entries whose parameter dicts live in a heap, so that aliasing between  *)
(* a stage's input and output is visible.                                  *)
(***************************************************************************)
EXTENDS Integers, Sequences, FiniteSets, TLC

VARIABLES
    pc,           \* how far create_fitness_plan has got (api_server.py:94-137)
    err,          \* the exception a stage raised, "none" if none
    catalogFile,  \* data/exercises.json: "ok", "missing" or "malformed"
    db,           \* the records load_exercises_db returns
    equipment,    \* profile['Equipment']: a string or a set of equipment names
    injuries,     \* profile['Injuries'] as given, before normalisation
    goal,         \* profile['Goal']; "" when the key is missing
    days,         \* profile['Days_per_Week']
    weeks,        \* request.weeks
    heap,         \* the parameter dicts {sets, reps, intensity}, by reference
    inputPreds,   \* the map create_fitness_plan built (api_server.py:102-111)
    preds,        \* the map the pipeline currently holds
    subs,         \* per original, the branch substitute_exercises took
    baseSchedule, \* base_schedule of call_llm_for_plan
    weekPreds,    \* week_preds of each week of call_llm_for_plan
    plan,         \* result['weeks']
    multiweek,    \* the return value of generate_multiweek
    parseRequest, \* the body of a request to /parse (api_server.py:141)
    parseResponse \* the answer of parse_message: status, detail, content

vars == <<pc, err, catalogFile, db, equipment, injuries, goal, days, weeks,
          heap, inputPreds, preds, subs, baseSchedule, weekPreds, plan,
          multiweek, parseRequest, parseResponse>>

----------------------------------------------------------------------------
(* Python str operations                                                   *)

UpperChars == <<"A","B","C","D","E","F","G","H","I","J","K","L","M",
                "N","O","P","Q","R","S","T","U","V","W","X","Y","Z">>

LowerChars == <<"a","b","c","d","e","f","g","h","i","j","k","l","m",
                "n","o","p","q","r","s","t","u","v","w","x","y","z">>

\* the lower-case letter of every upper-case letter
LowerOf ==
    [c \in {UpperChars[i] : i \in 1..26} |->
        LowerChars[CHOOSE i \in 1..26 : UpperChars[i] = c]]

LowerChar(c) == IF c \in DOMAIN LowerOf THEN LowerOf[c] ELSE c

\* str.lower()
Lower(s) == [i \in 1..Len(s) |-> LowerChar(s[i])]

\* str.strip(): drop leading and trailing blanks
RECURSIVE LStrip(_)
LStrip(s) == IF s # <<>> /\ Head(s) = " " THEN LStrip(Tail(s)) ELSE s

RECURSIVE RStrip(_)
RStrip(s) ==
    IF s # <<>> /\ s[Len(s)] = " " THEN RStrip(SubSeq(s, 1, Len(s) - 1)) ELSE s

Strip(s) == RStrip(LStrip(s))

\* the substring test `sub in s`
Contains(s, sub) ==
    \E i \in 0..(Len(s) - Len(sub)) : SubSeq(s, i + 1, i + Len(sub)) = sub

\* list membership `x in lst`
InList(x, lst) == \E i \in 1..Len(lst) : lst[i] = x

LowerAll(lst) == [i \in 1..Len(lst) |-> Lower(lst[i])]

\* Python None, distinct from every character string
None == <<"None">>

----------------------------------------------------------------------------
(* String literals of the source and of the catalog data                   *)

SP == <<" ">>

s_bench == <<"b","e","n","c","h">>
s_press == <<"p","r","e","s","s">>
s_squat == <<"s","q","u","a","t">>
s_row == <<"r","o","w">>
s_deadlift == <<"d","e","a","d","l","i","f","t">>
s_overhead == <<"o","v","e","r","h","e","a","d">>
s_push == <<"p","u","s","h">>
s_pull == <<"p","u","l","l">>
s_curl == <<"c","u","r","l">>
s_dip == <<"d","i","p">>
s_handstand == <<"h","a","n","d","s","t","a","n","d">>
s_leg == <<"l","e","g">>
s_femoral == <<"f","e","m","o","r","a","l">>
s_hamstring == <<"h","a","m","s","t","r","i","n","g">>
s_stretch == <<"s","t","r","e","t","c","h">>
s_runners == <<"r","u","n","n","e","r","s">>
s_chest == <<"c","h","e","s","t">>
s_shoulders == <<"s","h","o","u","l","d","e","r","s">>
s_back == <<"b","a","c","k">>
s_legs == <<"l","e","g","s">>
s_posterior_chain ==
    <<"p","o","s","t","e","r","i","o","r","_","c","h","a","i","n">>
s_dumbbell == <<"d","u","m","b","b","e","l","l">>
s_dumbbells == s_dumbbell \o <<"s">>
s_body_weight == <<"b","o","d","y"," ","w","e","i","g","h","t">>
s_band == <<"b","a","n","d">>
s_kettlebell == <<"k","e","t","t","l","e","b","e","l","l">>
s_gym == <<"g","y","m">>
s_barbell == <<"b","a","r","b","e","l","l">>
s_pectorals == <<"p","e","c","t","o","r","a","l","s">>
s_glutes == <<"g","l","u","t","e","s">>
s_upper == <<"u","p","p","e","r">>
s_lower == <<"l","o","w","e","r">>
s_full == <<"f","u","l","l">>
s_lunge == <<"l","u","n","g","e">>

\* the canonical prediction keys of muscle_map, spelled as in the source
k_Bench == <<"B">> \o Tail(s_bench)
k_OverheadPress == <<"O">> \o Tail(s_overhead) \o <<"P">> \o Tail(s_press)
k_Row == <<"R">> \o Tail(s_row)
k_Squat == <<"S">> \o Tail(s_squat)
k_Deadlift == <<"D">> \o Tail(s_deadlift)

\* further prediction keys
k_push_up == s_push \o <<"-">> \o <<"u","p">>
k_Bench_Press == k_Bench \o SP \o <<"P">> \o Tail(s_press)
k_Leg_Press == <<"L","e","g">> \o SP \o <<"P">> \o Tail(s_press)
k_Hamstring_Stretch ==
    <<"H">> \o Tail(s_hamstring) \o SP \o <<"S">> \o Tail(s_stretch)
k_Plank == <<"P","l","a","n","k">>
k_Calf_Stretch == <<"C","a","l","f">> \o SP \o <<"S">> \o Tail(s_stretch)

----------------------------------------------------------------------------
(* Python dict and list operations on prediction maps                      *)
(* A map is a sequence of entries [name, ref] with distinct names, in      *)
(* insertion order; heap[ref] is the parameter dict the key is bound to.   *)

DictHas(m, k) == \E i \in 1..Len(m) : m[i].name = k

DictIndex(m, k) == CHOOSE i \in 1..Len(m) : m[i].name = k

\* m[k] = r : rebinding an existing key keeps its position
DictSet(m, k, r) ==
    IF DictHas(m, k)
    THEN [m EXCEPT ![DictIndex(m, k)] = [name |-> k, ref |-> r]]
    ELSE Append(m, [name |-> k, ref |-> r])

\* list(m.keys())
Keys(m) == [i \in 1..Len(m) |-> m[i].name]

\* the parameter dict a key is bound to
Value(h, m, k) == h[m[DictIndex(m, k)].ref]

\* the map as the caller sees it: name -> parameters, in order
View(h, m) ==
    [i \in 1..Len(m) |->
        [name |-> m[i].name, sets |-> h[m[i].ref].sets,
         reps |-> h[m[i].ref].reps, intensity |-> h[m[i].ref].intensity]]

RECURSIVE SumSeq(_)
SumSeq(s) == IF s = <<>> THEN 0 ELSE Head(s) + SumSeq(Tail(s))

Max2(a, b) == IF a >= b THEN a ELSE b

Min2(a, b) == IF a <= b THEN a ELSE b

\* int(round(num / den)) for num >= 0, den > 0: Python 3 rounds halves to even.
\* The source rounds the double sets * 1.05, sets * 0.7 or sets * (cap / total);
\* the double and the exact quotient round alike for sets * 1.05 below 500,
\* for sets * 0.7 below 45 and for sets = total, which covers every value the
\* requests of this model produce.
RoundHalfEven(num, den) ==
    LET q == num \div den
        r == num % den
    IN  IF 2 * r < den THEN q
        ELSE IF 2 * r > den THEN q + 1
        ELSE IF q % 2 = 0 THEN q ELSE q + 1

\* the halves-up rounding of other languages
RoundHalfUp(num, den) == (2 * num + den) \div (2 * den)

----------------------------------------------------------------------------
(* substitute_exercises                                                    *)

\* muscle_map.get(ex, None): exact, case-sensitive key lookup
muscle_map_get(ex) ==
    IF ex = k_Bench THEN s_chest
    ELSE IF ex = k_OverheadPress THEN s_shoulders
    ELSE IF ex = k_Row THEN s_back
    ELSE IF ex = k_Squat THEN s_legs
    ELSE IF ex = k_Deadlift THEN s_posterior_chain
    ELSE None

\* injuries = [i.strip().lower() for i in injuries if i]
NonEmpty(s) == s # <<>>

NormInjuries(inj) ==
    LET kept == SelectSeq(inj, NonEmpty)
    IN  [i \in 1..Len(kept) |-> Lower(Strip(kept[i]))]

\* available_equipment -> allowed_all
AllowedAll(eq) == eq.isStr /\ Lower(eq.str) = s_gym

\* Allowed with the dumbbells mode allowing dumbbells alone
AllowedDumbbellOnly(eq) ==
    IF eq.isStr
    THEN IF Lower(eq.str) = s_gym THEN {}
         ELSE IF Lower(eq.str) = s_dumbbells THEN {s_dumbbell}
              ELSE {s_body_weight}
    ELSE eq.set

\* available_equipment -> allowed
Allowed(eq) ==
    IF eq.isStr
    THEN IF Lower(eq.str) = s_gym THEN {}
         ELSE IF Lower(eq.str) = s_dumbbells
              THEN {s_dumbbell, s_body_weight, s_band, s_kettlebell}
              ELSE {s_body_weight}
    ELSE eq.set

\* HitsInjury without the lower-casing of the record's body parts
HitsInjuryCaseSensitive(item, inj) ==
    \E i \in 1..Len(item.bodyParts) : InList(item.bodyParts[i], inj)

\* any(b in injuries for b in bodyparts), body parts lower-cased
HitsInjury(item, inj) ==
    \E i \in 1..Len(item.bodyParts) : InList(Lower(item.bodyParts[i]), inj)

\* not allowed_all and not any(e in allowed for e in item_eqs)
Unavailable(item, eq) ==
    /\ ~AllowedAll(eq)
    /\ ~\E i \in 1..Len(item.equipments) :
            Lower(item.equipments[i]) \in Allowed(eq)

\* FindExact that takes the first record of the catalog whatever its name
FindExactAnyRecord(cat, ex) == IF cat = <<>> THEN 0 ELSE 1

\* the first record whose lower-cased name contains ex.lower(); 0 if none
FindExact(cat, ex) ==
    LET hits == {i \in 1..Len(cat) : Contains(Lower(cat[i].name), Lower(ex))}
    IN  IF hits = {} THEN 0
        ELSE CHOOSE i \in hits : \A j \in hits : i <= j

\* mg and (mg in item_body or mg in item_target)
MatchMuscle(item, mg) ==
    /\ mg # None
    /\ \/ InList(mg, LowerAll(item.bodyParts))
       \/ InList(mg, LowerAll(item.targetMuscles))

\* IsCandidate without the skip of records that hit an injured body part
IsCandidateIgnoringInjury(item, mg, eq, inj) ==
    /\ ~Unavailable(item, eq)
    /\ MatchMuscle(item, mg)

\* a record the substitute loop accepts (lines 236-250)
IsCandidate(item, mg, eq, inj) ==
    /\ ~HitsInjury(item, inj)
    /\ ~Unavailable(item, eq)
    /\ MatchMuscle(item, mg)

\* FindSubstitute without the break: the last accepted record wins
FindSubstituteLast(cat, mg, eq, inj) ==
    LET hits == {i \in 1..Len(cat) : IsCandidate(cat[i], mg, eq, inj)}
    IN  IF hits = {} THEN 0
        ELSE CHOOSE i \in hits : \A j \in hits : i >= j

\* the first record the substitute loop breaks on; 0 if it finds none
FindSubstitute(cat, mg, eq, inj) ==
    LET hits == {i \in 1..Len(cat) : IsCandidate(cat[i], mg, eq, inj)}
    IN  IF hits = {} THEN 0
        ELSE CHOOSE i \in hits : \A j \in hits : i <= j

\* contraindicated or unavailable, for an exercise resolved to record f
Contraindicated(cat, f, inj) == f # 0 /\ HitsInjury(cat[f], inj)

Flagged(cat, f, eq, inj) ==
    f # 0 /\ (HitsInjury(cat[f], inj) \/ Unavailable(cat[f], eq))

\* Reduced with int() in place of int(round()): the product is truncated
ReducedTruncated(v) ==
    [v EXCEPT !.sets = Max2(1, (7 * v.sets) \div 10),
              !.intensity = Max2(1, (7 * v.intensity) \div 10)]

\* v2 = v.copy(); sets and intensity scaled by 0.7, floor 1
Reduced(v) ==
    [v EXCEPT !.sets = Max2(1, RoundHalfEven(7 * v.sets, 10)),
              !.intensity = Max2(1, RoundHalfEven(7 * v.intensity, 10))]

\* SubstituteStep without v.copy(): the fallback scales the caller's dict
SubstituteStepInPlace(acc, e, cat, eq, inj) ==
    LET ex == e.name
        v == acc.heap[e.ref]
        mg == muscle_map_get(ex)
        f == FindExact(cat, ex)
        s == FindSubstitute(cat, mg, eq, inj)
    IN  IF Flagged(cat, f, eq, inj)
        THEN IF s # 0
             THEN [heap |-> acc.heap,
                   out |-> DictSet(acc.out, cat[s].name, e.ref),
                   log |-> Append(acc.log,
                       [ex |-> ex, outcome |-> "substituted", found |-> f,
                        rec |-> s, key |-> cat[s].name])]
             ELSE [heap |-> [acc.heap EXCEPT ![e.ref] = Reduced(v)],
                   out |-> DictSet(acc.out, ex, e.ref),
                   log |-> Append(acc.log,
                       [ex |-> ex, outcome |-> "reduced", found |-> f,
                        rec |-> 0, key |-> ex])]
        ELSE [heap |-> acc.heap,
              out |-> DictSet(acc.out, ex, e.ref),
              log |-> Append(acc.log,
                  [ex |-> ex, outcome |-> "kept", found |-> f,
                   rec |-> 0, key |-> ex])]

\* one iteration of the loop over preds.items(), on the accumulator
\* acc = [heap, out, log]
SubstituteStep(acc, e, cat, eq, inj) ==
    LET ex == e.name
        v == acc.heap[e.ref]
        mg == muscle_map_get(ex)
        f == FindExact(cat, ex)
        s == FindSubstitute(cat, mg, eq, inj)
        fresh == Len(acc.heap) + 1
    IN  IF Flagged(cat, f, eq, inj)
        THEN IF s # 0
             THEN [heap |-> Append(acc.heap, v),
                   out |-> DictSet(acc.out, cat[s].name, fresh),
                   log |-> Append(acc.log,
                       [ex |-> ex, outcome |-> "substituted", found |-> f,
                        rec |-> s, key |-> cat[s].name])]
             ELSE [heap |-> Append(acc.heap, Reduced(v)),
                   out |-> DictSet(acc.out, ex, fresh),
                   log |-> Append(acc.log,
                       [ex |-> ex, outcome |-> "reduced", found |-> f,
                        rec |-> 0, key |-> ex])]
        ELSE [heap |-> acc.heap,
              out |-> DictSet(acc.out, ex, e.ref),
              log |-> Append(acc.log,
                  [ex |-> ex, outcome |-> "kept", found |-> f,
                   rec |-> 0, key |-> ex])]

RECURSIVE SubstituteLoop(_, _, _, _, _)
SubstituteLoop(acc, entries, cat, eq, inj) ==
    IF entries = <<>> THEN acc
    ELSE SubstituteLoop(SubstituteStep(acc, Head(entries), cat, eq, inj),
                        Tail(entries), cat, eq, inj)

\* the body of substitute_exercises after the catalog has loaded
substitute_exercises(h, p, cat, eq, rawInj) ==
    SubstituteLoop([heap |-> h, out |-> <<>>, log |-> <<>>], p, cat, eq,
                   NormInjuries(rawInj))

----------------------------------------------------------------------------
(* refine_predictions                                                      *)

s_other == <<"o","t","h","e","r">>

\* Adjust without the floor of 3 on the reps of the Strength goal
AdjustNoRepsFloor(v, g) ==
    IF g = "Strength"
    THEN [v EXCEPT !.intensity = Min2(10, v.intensity + 1),
                   !.reps = v.reps - 1]
    ELSE IF g = "Endurance"
    THEN [v EXCEPT !.reps = v.reps + 2,
                   !.intensity = Max2(1, v.intensity - 1)]
    ELSE IF g = "Muscle Gain"
    THEN [v EXCEPT !.sets = RoundHalfEven(105 * v.sets, 100)]
    ELSE v

\* the goal adjustment of one parameter dict (lines 37-46)
Adjust(v, g) ==
    IF g = "Strength"
    THEN [v EXCEPT !.intensity = Min2(10, v.intensity + 1),
                   !.reps = Max2(3, v.reps - 1)]
    ELSE IF g = "Endurance"
    THEN [v EXCEPT !.reps = v.reps + 2,
                   !.intensity = Max2(1, v.intensity - 1)]
    ELSE IF g = "Muscle Gain"
    THEN [v EXCEPT !.sets = RoundHalfEven(105 * v.sets, 100)]
    ELSE v

RECURSIVE AdjustLoop(_, _, _)
AdjustLoop(h, entries, g) ==
    IF entries = <<>> THEN h
    ELSE AdjustLoop([h EXCEPT ![Head(entries).ref] = Adjust(@, g)],
                    Tail(entries), g)

\* muscle_map.get(ex, 'other'): the bucket an exercise is counted in
CountedIn(ex) ==
    IF muscle_map_get(ex) = None THEN s_other ELSE muscle_map_get(ex)

\* muscle_map.get(ex) == mg: the exercises the scale-down is applied to
ScaledWith(ex, mg) == muscle_map_get(ex) = mg

\* weekly_cap_get with every group given the default cap
weekly_cap_get_default(mg) == 30

\* weekly_cap.get(mg, 30)
weekly_cap_get(mg) ==
    IF mg = s_legs THEN 25
    ELSE IF mg = s_chest THEN 20
    ELSE IF mg = s_back THEN 20
    ELSE IF mg = s_shoulders THEN 15
    ELSE IF mg = s_posterior_chain THEN 20
    ELSE 30

\* weekly_sets[mg] after the counting loop
RECURSIVE weekly_sets(_, _, _)
weekly_sets(h, entries, mg) ==
    IF entries = <<>> THEN 0
    ELSE (IF CountedIn(Head(entries).name) = mg
          THEN h[Head(entries).ref].sets ELSE 0)
         + weekly_sets(h, Tail(entries), mg)

\* the keys of weekly_sets, in order of first insertion
RECURSIVE GroupsOf(_, _)
GroupsOf(entries, seen) ==
    IF entries = <<>> THEN seen
    ELSE LET mg == CountedIn(Head(entries).name)
         IN  GroupsOf(Tail(entries),
                      IF InList(mg, seen) THEN seen ELSE Append(seen, mg))

\* OverCap with the comparison dropped: every group is scaled
OverCapAlways(total, cap) == TRUE

\* if total > cap
OverCap(total, cap) == total > cap

\* max(1, int(round(sets * (cap / total))))
Scaled(sets, cap, total) == Max2(1, RoundHalfEven(sets * cap, total))

RECURSIVE ScaleGroup(_, _, _, _, _)
ScaleGroup(h, entries, mg, cap, total) ==
    IF entries = <<>> THEN h
    ELSE LET e == Head(entries)
             h2 == IF ScaledWith(e.name, mg)
                   THEN [h EXCEPT ![e.ref].sets = Scaled(@, cap, total)]
                   ELSE h
         IN  ScaleGroup(h2, Tail(entries), mg, cap, total)

\* the loop over weekly_sets.items(); acc = [heap, raised]
RECURSIVE CapLoop(_, _, _, _)
CapLoop(acc, groups, totals, m) ==
    IF groups = <<>> \/ acc.raised # "none" THEN acc
    ELSE LET mg == Head(groups)
             total == totals[Len(totals) - Len(groups) + 1]
             cap == weekly_cap_get(mg)
         IN  IF OverCap(total, cap)
             THEN IF total = 0
                  THEN [acc EXCEPT !.raised = "ZeroDivisionError"]
                  ELSE CapLoop([acc EXCEPT
                                  !.heap = ScaleGroup(@, m, mg, cap, total)],
                               Tail(groups), totals, m)
             ELSE CapLoop(acc, Tail(groups), totals, m)

\* refine_predictions mutates the parameter dicts of its argument in place
\* and returns the same map object
refine_predictions(h, m, g) ==
    LET h1 == AdjustLoop(h, m, g)
        groups == GroupsOf(m, <<>>)
        totals == [i \in 1..Len(groups) |-> weekly_sets(h1, m, groups[i])]
    IN  CapLoop([heap |-> h1, raised |-> "none"], groups, totals, m)

----------------------------------------------------------------------------
(* schedule_exercises                                                      *)

\* training_days with the first d days of the week as training days
training_days_consecutive(d) == [i \in 1..Min2(Max2(d, 1), 7) |-> i]

training_days(d) ==
    IF d <= 2 THEN (IF d = 2 THEN <<1, 4>> ELSE <<3>>)
    ELSE IF d = 3 THEN <<1, 3, 5>>
    ELSE IF d = 4 THEN <<1, 2, 4, 5>>
    ELSE IF d = 5 THEN <<1, 2, 3, 5, 6>>
    ELSE IF d = 6 THEN <<1, 2, 3, 4, 5, 6>>
    ELSE <<1, 2, 3, 4, 5, 6, 7>>

push == {k_Bench, k_OverheadPress, s_bench \o SP \o s_press,
         s_overhead \o SP \o s_press, s_push, s_press, s_dip, s_handstand}

pull == {k_Row, s_row, s_pull, s_curl}

legs == {k_Squat, k_Deadlift, s_squat, s_deadlift, s_leg, s_femoral,
         s_hamstring}

stretch == {s_stretch, s_runners \o SP \o s_stretch,
            s_hamstring \o SP \o s_stretch}

\* any(p in ex.lower() for p in keywords)
Matches(ex, keywords) == \E p \in keywords : Contains(Lower(ex), p)

push_exercises(exs) == SelectSeq(exs, LAMBDA ex : Matches(ex, push))

pull_exercises(exs) == SelectSeq(exs, LAMBDA ex : Matches(ex, pull))

leg_exercises(exs) == SelectSeq(exs, LAMBDA ex : Matches(ex, legs))

stretch_exercises(exs) == SelectSeq(exs, LAMBDA ex : Matches(ex, stretch))

\* other_exercises that leaves the uncategorised names out
other_exercises_none(exs) == <<>>

other_exercises(exs) ==
    SelectSeq(exs, LAMBDA ex :
        ~InList(ex, push_exercises(exs) \o pull_exercises(exs)
                    \o leg_exercises(exs) \o stretch_exercises(exs)))

non_empty_groups(exs) ==
    SelectSeq(<<push_exercises(exs), pull_exercises(exs),
                leg_exercises(exs), other_exercises(exs)>>,
              LAMBDA grp : grp # <<>>)

\* (ex, preds[ex]) for each name of a list
Pairs(m, names) ==
    [i \in 1..Len(names) |->
        [name |-> names[i], ref |-> m[DictIndex(m, names[i])].ref]]

\* for i, ex in enumerate(exercises): schedule[tdays[i % n]].append(...)
RoundRobin(m, exs, tdays, n) ==
    [d \in 1..7 |->
        Pairs(m, SelectSeq(exs, LAMBDA ex :
            tdays[(((CHOOSE i \in 1..Len(exs) : exs[i] = ex) - 1) % n) + 1]
                = d))]

\* one category per training day, then the stretches on every training day
CategoryPerDay(m, exs, tdays) ==
    LET grps == non_empty_groups(exs)
    IN  [d \in 1..7 |->
            (IF \E i \in 1..Len(grps) : tdays[i] = d
             THEN Pairs(m, grps[CHOOSE i \in 1..Len(grps) : tdays[i] = d])
             ELSE <<>>)
            \o (IF InList(d, tdays) THEN Pairs(m, stretch_exercises(exs))
                ELSE <<>>)]

\* FitsCategories with a strict comparison
FitsCategoriesStrict(exs, tdays) == Len(non_empty_groups(exs)) < Len(tdays)

\* the choice of lines 121 and 131
FitsCategories(exs, tdays) == Len(non_empty_groups(exs)) <= Len(tdays)

\* i % days with days = 0 raises
ScheduleRaises(m, d) == d = 0 /\ m # <<>>

schedule_exercises(m, d) ==
    LET exs == Keys(m)
        tdays == training_days(d)
    IN  IF d <= 2 THEN RoundRobin(m, exs, tdays, d)
        ELSE IF FitsCategories(exs, tdays)
             THEN CategoryPerDay(m, exs, tdays)
             ELSE RoundRobin(m, exs, tdays, Len(tdays))

----------------------------------------------------------------------------
(* generate_multiweek and call_llm_for_plan                                *)

\* MultiweekEntry with the step taken modulo 2 instead of divided by 2
MultiweekEntryModulo(e, w) ==
    [name |-> e.name,
     sets |-> Max2(1, e.sets + (w % 2)),
     reps |-> e.reps,
     intensity |-> Min2(10, e.intensity + (w % 2))]

\* week_preds[ex] of generate_multiweek, week index w
MultiweekEntry(e, w) ==
    [name |-> e.name,
     sets |-> Max2(1, e.sets + (w \div 2)),
     reps |-> e.reps,
     intensity |-> Min2(10, e.intensity + (w \div 2))]

generate_multiweek(view, n) ==
    [k \in 1..n |-> [i \in 1..Len(view) |-> MultiweekEntry(view[i], k - 1)]]

\* PlanEntry with a step every week instead of every second week
PlanEntryEveryWeek(e, week) ==
    [name |-> e.name,
     sets |-> Max2(1, e.sets + week),
     reps |-> e.reps,
     intensity |-> Min2(10, e.intensity + week)]

\* PlanEntry without the ceiling of 10 on intensity
PlanEntryNoCeiling(e, week) ==
    [name |-> e.name,
     sets |-> Max2(1, e.sets + (week \div 2)),
     reps |-> e.reps,
     intensity |-> e.intensity + (week \div 2)]

\* week_preds[ex] of call_llm_for_plan, week index week
PlanEntry(e, week) ==
    [name |-> e.name,
     sets |-> Max2(1, e.sets + (week \div 2)),
     reps |-> e.reps,
     intensity |-> Min2(10, e.intensity + (week \div 2))]

PlanWeekPreds(view, week) ==
    [i \in 1..Len(view) |-> PlanEntry(view[i], week)]

\* week_preds[ex_name] for a scheduled name
WeekValue(wp, name) == wp[CHOOSE i \in 1..Len(wp) : wp[i].name = name]

\* WeekDay that stops after the first exercise of the day
WeekDayFirstOnly(wp, scheduled) ==
    IF scheduled = <<>> THEN <<>>
    ELSE <<WeekValue(wp, scheduled[1].name)>>

\* week_schedule[day]: the scheduled names that are keys of week_preds
WeekDay(wp, scheduled) ==
    LET present == SelectSeq(scheduled, LAMBDA p :
                       \E i \in 1..Len(wp) : wp[i].name = p.name)
    IN  [i \in 1..Len(present) |-> WeekValue(wp, present[i].name)]

WeekSchedule(wp, base) == [d \in 1..7 |-> WeekDay(wp, base[d])]

\* call_llm_for_plan that schedules every week with week 0's parameters
call_llm_for_plan_stale(view, base, n) ==
    [k \in 1..n |-> WeekSchedule(PlanWeekPreds(view, 0), base)]

call_llm_for_plan(view, base, n) ==
    [k \in 1..n |-> WeekSchedule(PlanWeekPreds(view, k - 1), base)]

----------------------------------------------------------------------------
(* Inputs of a request                                                     *)

\* longest prediction map drawn freely from a name pool
MaxEx == 2

\* largest requested week count
MaxWeeks == 5

\* catalog records in the shape of data/exercises.json
r_barbell_bench_press ==
    [name |-> s_barbell \o SP \o s_bench \o SP \o s_press,
     bodyParts |-> <<s_chest>>, targetMuscles |-> <<s_pectorals>>,
     equipments |-> <<s_barbell>>]

r_push_up ==
    [name |-> k_push_up,
     bodyParts |-> <<s_chest>>, targetMuscles |-> <<s_pectorals>>,
     equipments |-> <<s_body_weight>>]

r_barbell_full_squat ==
    [name |-> s_barbell \o SP \o s_full \o SP \o s_squat,
     bodyParts |-> <<s_upper \o SP \o s_legs>>,
     targetMuscles |-> <<s_glutes, s_legs>>,
     equipments |-> <<s_barbell>>]

r_Band_Squat_Row ==
    [name |-> <<"B">> \o Tail(s_band) \o SP \o k_Squat \o SP \o k_Row,
     bodyParts |-> <<<<"B">> \o Tail(s_back)>>,
     targetMuscles |-> <<s_upper \o SP \o s_back>>,
     equipments |-> <<<<"B">> \o Tail(s_band)>>]

r_bodyweight_lunge ==
    [name |-> <<"b","o","d","y","w","e","i","g","h","t">> \o SP \o s_lunge,
     bodyParts |-> <<s_lower \o SP \o s_legs>>,
     targetMuscles |-> <<<<"L">> \o Tail(s_legs)>>,
     equipments |-> <<s_body_weight>>]

CatalogPool == <<r_barbell_bench_press, r_push_up, r_barbell_full_squat,
                 r_Band_Squat_Row, r_bodyweight_lunge>>

\* the members of a pool selected by an index set, in pool order
Pick(pool, S) ==
    LET idx == SelectSeq([i \in 1..Len(pool) |-> i], LAMBDA i : i \in S)
    IN  [i \in 1..Len(idx) |-> pool[idx[i]]]

SubLists(pool) == {Pick(pool, S) : S \in SUBSET (1..Len(pool))}

\* lists of at most n distinct members of a set
DistinctLists(S, n) ==
    UNION {{f \in [1..k -> S] : \A i, j \in 1..k : i # j => f[i] # f[j]} :
           k \in 0..n}

Str(chars) == [isStr |-> TRUE, str |-> chars, set |-> {}]

EquipmentPool ==
    {Str(<<"G">> \o Tail(s_gym)), Str(<<"D">> \o Tail(s_dumbbells)),
     Str(<<"H","o","m","e">>),
     [isStr |-> FALSE, str |-> <<>>, set |-> {s_barbell}]}

InjuryPool ==
    {<<>>, <<s_back>>,
     <<SP \o <<"U">> \o Tail(s_upper) \o SP \o <<"L">> \o Tail(s_legs),
       <<>>, <<"C">> \o Tail(s_chest)>>}

Goals == {"Strength", "Endurance", "Muscle Gain", "Weight Loss", ""}

DefaultParams == [sets |-> 3, reps |-> 10, intensity |-> 5]

ParamPool == {DefaultParams,
              [sets |-> 0, reps |-> 3, intensity |-> 1],
              [sets |-> 31, reps |-> 8, intensity |-> 10]}

SubNames == {k_Bench, k_Squat, k_Row, k_push_up}

RefNames == {k_Squat, k_OverheadPress, k_push_up}

SchedPool == <<k_Squat, k_Bench, k_Row, k_OverheadPress, k_Leg_Press,
               k_Hamstring_Stretch, k_Plank, k_Calf_Stretch>>

\* no request to /parse has been answered
NoResponse == [status |-> 0, detail |-> <<>>, content |-> <<>>]

\* the state when a request enters the pipeline: preds as built by
\* create_fitness_plan, one fresh parameter dict per exercise name
Request(cf, cat, eq, inj, names, params, g, d, n) ==
    /\ pc = "start"
    /\ err = "none"
    /\ catalogFile = cf
    /\ db = cat
    /\ equipment = eq
    /\ injuries = inj
    /\ goal = g
    /\ days = d
    /\ weeks = n
    /\ heap = params
    /\ inputPreds = [i \in 1..Len(names) |-> [name |-> names[i], ref |-> i]]
    /\ preds = [i \in 1..Len(names) |-> [name |-> names[i], ref |-> i]]
    /\ subs = <<>>
    /\ baseSchedule = <<>>
    /\ weekPreds = <<>>
    /\ plan = <<>>
    /\ multiweek = <<>>
    /\ parseRequest = <<>>
    /\ parseResponse = NoResponse

Defaults(names) == [i \in 1..Len(names) |-> DefaultParams]

\* requests that exercise the substitution resolver
InitSubstitution ==
    \E cat \in SubLists(CatalogPool), eq \in EquipmentPool,
       inj \in InjuryPool, names \in DistinctLists(SubNames, MaxEx) :
        Request("ok", cat, eq, inj, names, Defaults(names),
                "Weight Loss", 3, 2)

\* requests whose catalog file cannot be loaded
InitNoCatalog ==
    \E cf \in {"missing", "malformed"}, eq \in EquipmentPool,
       names \in DistinctLists(SubNames, MaxEx) :
        Request(cf, <<>>, eq, <<>>, names, Defaults(names),
                "Weight Loss", 3, 2)

\* requests that exercise the safety refiner and the progression
InitRefinement ==
    \E names \in DistinctLists(RefNames, MaxEx), g \in Goals,
       n \in 0..MaxWeeks :
        \E params \in [1..Len(names) -> ParamPool] :
            Request("ok", <<>>, Str(<<"G">> \o Tail(s_gym)), <<>>, names,
                    params, g, 4, n)

\* requests that exercise the weekly scheduler
InitScheduling ==
    \E names \in SubLists(SchedPool), d \in 1..7 :
        Request("ok", <<>>, Str(<<"G">> \o Tail(s_gym)), <<>>, names,
                Defaults(names), "Weight Loss", d, 3)

\* a catalog record that serves two muscle groups with body weight only
r_bear_crawl ==
    [name |-> <<"b","e","a","r">> \o SP \o <<"c","r","a","w","l">>,
     bodyParts |-> <<s_chest>>, targetMuscles |-> <<s_legs>>,
     equipments |-> <<s_body_weight>>]

CollisionCatalog == <<r_barbell_bench_press, r_push_up, r_barbell_full_squat,
                      r_bear_crawl>>

\* predicted parameters that differ from exercise to exercise
ParamsOf(name) ==
    IF name = k_Bench THEN [sets |-> 4, reps |-> 8, intensity |-> 7]
    ELSE IF name = k_Squat THEN [sets |-> 5, reps |-> 6, intensity |-> 9]
    ELSE IF name = k_push_up THEN [sets |-> 1, reps |-> 12, intensity |-> 1]
    ELSE DefaultParams

\* prediction maps whose substitutes can meet each other or a key of the map
CollisionLists ==
    {<<k_push_up, k_Bench>>, <<k_Bench, k_push_up>>, <<k_Bench, k_Squat>>,
     <<k_Bench, k_Squat, k_push_up>>, <<k_Bench_Press>>,
     <<k_Bench_Press, k_Bench>>}

\* requests whose exercises carry different parameters and whose substitutes
\* can share a name
InitCollision ==
    \E cat \in SubLists(CollisionCatalog), eq \in EquipmentPool,
       inj \in InjuryPool, names \in CollisionLists :
        Request("ok", cat, eq, inj, names,
                [i \in 1..Len(names) |-> ParamsOf(names[i])],
                "Toning", 3, 2)

----------------------------------------------------------------------------
(* The natural-language parser (model/nl_parser.py)                        *)

\* any(word in message_lower for word in words)
any_word_in(message_lower, words) ==
    \E i \in 1..Len(words) : Contains(message_lower, words[i])

DigitValue ==
    [c \in {"0","1","2","3","4","5","6","7","8","9"} |->
        CASE c = "0" -> 0 [] c = "1" -> 1 [] c = "2" -> 2 [] c = "3" -> 3
          [] c = "4" -> 4 [] c = "5" -> 5 [] c = "6" -> 6 [] c = "7" -> 7
          [] c = "8" -> 8 [] c = "9" -> 9]

\* the character classes \d and \s of the patterns, on ASCII text
IsDigit(c) == c \in DOMAIN DigitValue

IsSpace(c) == c \in {" ", "\t", "\n", "\r"}

\* the end of the longest run of digits that starts at position i
RECURSIVE DigitsEnd(_, _)
DigitsEnd(s, i) ==
    IF i < Len(s) /\ IsDigit(s[i + 1]) THEN DigitsEnd(s, i + 1) ELSE i

\* the first position from j on that holds no white space
RECURSIVE SkipSpace(_, _)
SkipSpace(s, j) ==
    IF j <= Len(s) /\ IsSpace(s[j]) THEN SkipSpace(s, j + 1) ELSE j

\* int() of a string of digits
RECURSIVE ToInt(_)
ToInt(ds) ==
    IF ds = <<>> THEN 0
    ELSE 10 * ToInt(SubSeq(ds, 1, Len(ds) - 1)) + DigitValue[ds[Len(ds)]]

\* the pattern (\d+)\s*word matches at position i
NumberWordAt(s, i, word) ==
    /\ IsDigit(s[i])
    /\ LET j == SkipSpace(s, DigitsEnd(s, i) + 1)
       IN  /\ j + Len(word) - 1 <= Len(s)
           /\ SubSeq(s, j, j + Len(word) - 1) = word

\* re.search(r'(\d+)\s*word', s): the group of the leftmost match as a
\* one-element sequence, <<>> when nothing matches
re_search_number(s, word) ==
    LET starts == {i \in 1..Len(s) : NumberWordAt(s, i, word)}
    IN  IF starts = {} THEN <<>>
        ELSE LET i == CHOOSE k \in starts : \A l \in starts : k <= l
             IN  <<ToInt(SubSeq(s, i, DigitsEnd(s, i)))>>

ParsedAge(message_lower) ==
    LET age_match == re_search_number(message_lower, <<"y","e","a","r">>)
    IN  IF age_match # <<>> /\ 16 <= age_match[1] /\ age_match[1] <= 80
        THEN age_match[1] ELSE 30

ParsedGender(message_lower) ==
    IF any_word_in(message_lower,
            <<<<"f","e","m","a","l","e">>, <<"w","o","m","a","n">>,
              <<"g","i","r","l">>, <<"s","h","e">>, <<"h","e","r">>>>) THEN "Female"
    ELSE IF any_word_in(message_lower,
            <<<<"m","a","l","e">>, <<"m","a","n">>, <<"b","o","y">>,
              <<"h","e">>, <<"h","i","m">>>>) THEN "Male"
    ELSE "Male"

ParsedGoal(message_lower) ==
    IF any_word_in(message_lower,
            <<<<"w","e","i","g","h","t"," ","l","o","s","s">>,
              <<"l","o","s","e"," ","w","e","i","g","h","t">>,
              <<"f","a","t"," ","l","o","s","s">>,
              <<"c","u","t","t","i","n","g">>>>) THEN "Weight Loss"
    ELSE IF any_word_in(message_lower,
            <<<<"m","u","s","c","l","e">>, <<"b","u","i","l","d">>,
              <<"g","a","i","n">>, <<"b","u","l","k">>, <<"m","a","s","s">>>>) THEN "Muscle Gain"
    ELSE IF any_word_in(message_lower,
            <<<<"s","t","r","e","n","g","t","h">>,
              <<"s","t","r","o","n","g">>,
              <<"p","o","w","e","r","l","i","f","t","i","n","g">>,
              <<"l","i","f","t","i","n","g">>>>) THEN "Strength"
    ELSE IF any_word_in(message_lower,
            <<<<"e","n","d","u","r","a","n","c","e">>,
              <<"c","a","r","d","i","o">>, <<"r","u","n","n","i","n","g">>,
              <<"m","a","r","a","t","h","o","n">>>>) THEN "Endurance"
    ELSE IF any_word_in(message_lower,
            <<<<"t","o","n","e">>, <<"t","o","n","i","n","g">>,
              <<"l","e","a","n">>, <<"d","e","f","i","n","i","t","i","o","n">>>>) THEN "Toning"
    ELSE "Muscle Gain"

ParsedDays(message_lower) ==
    LET days_match == re_search_number(message_lower, <<"d","a","y">>)
    IN  IF days_match # <<>> /\ 2 <= days_match[1] /\ days_match[1] <= 6
        THEN days_match[1] ELSE 4

ParsedEquipment(message_lower) ==
    IF any_word_in(message_lower,
            <<<<"h","o","m","e">>, <<"h","o","u","s","e">>,
              <<"a","p","a","r","t","m","e","n","t">>>>) THEN "Home"
    ELSE IF any_word_in(message_lower,
            <<<<"g","y","m">>,
              <<"f","i","t","n","e","s","s"," ","c","e","n","t","e","r">>,
              <<"h","e","a","l","t","h"," ","c","l","u","b">>>>) THEN "Gym"
    ELSE IF any_word_in(message_lower,
            <<<<"p","a","r","k">>, <<"o","u","t","d","o","o","r">>,
              <<"o","u","t","s","i","d","e">>>>) THEN "Park"
    ELSE "Gym"

ParsedLevel(message_lower) ==
    IF any_word_in(message_lower,
            <<<<"b","e","g","i","n","n","e","r">>, <<"n","e","w">>,
              <<"s","t","a","r","t">>, <<"n","e","v","e","r">>,
              <<"f","i","r","s","t"," ","t","i","m","e">>>>) THEN "Beginner"
    ELSE IF any_word_in(message_lower,
            <<<<"a","d","v","a","n","c","e","d">>,
              <<"e","x","p","e","r","t">>,
              <<"e","x","p","e","r","i","e","n","c","e","d">>,
              <<"c","o","m","p","e","t","i","t","i","v","e">>>>) THEN "Advanced"
    ELSE "Intermediate"

\* list(set(injuries)): the injury words found, in no particular order
ParsedInjuries(message_lower) ==
    LET injury_words ==
            <<<<"k","n","e","e">>, <<"b","a","c","k">>,
              <<"s","h","o","u","l","d","e","r">>, <<"a","n","k","l","e">>,
              <<"w","r","i","s","t">>, <<"i","n","j","u","r","y">>,
              <<"h","u","r","t">>, <<"p","a","i","n">>,
              <<"p","r","o","b","l","e","m">>>>
    IN  {injury_words[i] : i \in {k \in 1..Len(injury_words) :
                                    Contains(message_lower, injury_words[k])}}

\* parse_natural_language_input on a character string
parse_natural_language_input(user_message) ==
    LET message_lower == Lower(user_message)
    IN  [Age |-> ParsedAge(message_lower),
         Gender |-> ParsedGender(message_lower),
         Goal |-> ParsedGoal(message_lower),
         Fitness_Level |-> ParsedLevel(message_lower),
         Days_per_Week |-> ParsedDays(message_lower),
         Equipment |-> ParsedEquipment(message_lower),
         Body_Type |-> "Mesomorph",
         Injuries |-> ParsedInjuries(message_lower)]

----------------------------------------------------------------------------
(* Requests to the /parse endpoint                                         *)

\* JSON values a request body can hold under a key
StrValue(chars) == [type |-> "str", str |-> chars, int |-> 0]

IntValue(n) == [type |-> "int", str |-> <<>>, int |-> n]

NullValue == [type |-> "NoneType", str |-> <<>>, int |-> 0]

\* Python truth value: '' , 0 and None are false
Truthy(v) ==
    CASE v.type = "str" -> v.str # <<>>
      [] v.type = "int" -> v.int # 0
      [] OTHER -> FALSE

\* dict.get(key, default) on a body given as a sequence of entries
DictGet(body, key, default) ==
    IF \E i \in 1..Len(body) : body[i].key = key
    THEN body[CHOOSE i \in 1..Len(body) : body[i].key = key].value
    ELSE default

\* phrases a message is composed of
MessagePhrases ==
    <<<<"2","5"," ","y","e","a","r"," ","o","l","d"," ">>,
      <<"W","o","m","a","n",","," ">>,
      <<"S","t","r","e","n","g","t","h",","," ">>,
      <<"1","2"," ","d","a","y"," ","s","p","l","i","t",","," ">>,
      <<"3"," ","d","a","y","s"," ">>,
      <<"a","t"," ","H","o","m","e",","," ">>,
      <<"b","e","g","i","n","n","e","r",","," ">>,
      <<"k","n","e","e"," ","p","a","i","n">>>>

RECURSIVE Join(_)
Join(parts) == IF parts = <<>> THEN <<>> ELSE Head(parts) \o Join(Tail(parts))

\* the messages sent: every selection of the phrases, the empty one included
MessagePool == {Join(parts) : parts \in SubLists(MessagePhrases)}

\* the request bodies sent: no key at all, an unrelated key, and 'message'
\* holding a string, a number or null
BodyPool ==
    {<<>>, <<[key |-> "text", value |-> StrValue(MessagePhrases[8])]>>}
    \cup {<<[key |-> "message", value |-> StrValue(m)]>> : m \in MessagePool}
    \cup {<<[key |-> "message", value |-> v]>> :
            v \in {IntValue(0), IntValue(5), NullValue}}

\* a request that enters the /parse endpoint
InitParse ==
    \E body \in BodyPool :
        /\ pc = "parse"
        /\ err = "none"
        /\ catalogFile = "ok"
        /\ db = <<>>
        /\ equipment = Str(<<"G">> \o Tail(s_gym))
        /\ injuries = <<>>
        /\ goal = ""
        /\ days = 4
        /\ weeks = 4
        /\ heap = <<>>
        /\ inputPreds = <<>>
        /\ preds = <<>>
        /\ subs = <<>>
        /\ baseSchedule = <<>>
        /\ weekPreds = <<>>
        /\ plan = <<>>
        /\ multiweek = <<>>
        /\ parseRequest = body
        /\ parseResponse = NoResponse

----------------------------------------------------------------------------

Init ==
    \/ InitSubstitution
    \/ InitNoCatalog
    \/ InitRefinement
    \/ InitScheduling
    \/ InitCollision
    \/ InitParse

----------------------------------------------------------------------------
(* The /plan pipeline of create_fitness_plan                               *)

\* load_exercises_db: open() or json.load() raises when the file is
\* missing or malformed; nothing catches it before create_fitness_plan
load_exercises_db(cf) ==
    IF cf = "missing" THEN "FileNotFoundError"
    ELSE IF cf = "malformed" THEN "JSONDecodeError"
    ELSE "none"

\* preds = substitute_exercises(preds, equipment, injuries)
Substitute ==
    /\ pc = "start"
    /\ LET raised == load_exercises_db(catalogFile)
           r == substitute_exercises(heap, preds, db, equipment, injuries)
       IN  IF raised # "none"
           THEN /\ pc' = "failed"
                /\ err' = raised
                /\ UNCHANGED <<heap, preds, subs>>
           ELSE /\ pc' = "substituted"
                /\ heap' = r.heap
                /\ preds' = r.out
                /\ subs' = r.log
                /\ UNCHANGED err
    /\ UNCHANGED <<catalogFile, db, equipment, injuries, goal, days, weeks,
                   inputPreds, baseSchedule, weekPreds, plan, multiweek,
                   parseRequest, parseResponse>>

\* preds = refine_predictions(preds, profile)
Refine ==
    /\ pc = "substituted"
    /\ LET r == refine_predictions(heap, preds, goal)
       IN  IF r.raised # "none"
           THEN /\ pc' = "failed"
                /\ err' = r.raised
                /\ UNCHANGED heap
           ELSE /\ pc' = "refined"
                /\ heap' = r.heap
                /\ UNCHANGED err
    /\ UNCHANGED <<catalogFile, db, equipment, injuries, goal, days, weeks,
                   inputPreds, preds, subs, baseSchedule, weekPreds, plan,
                   multiweek, parseRequest, parseResponse>>

\* result = call_llm_for_plan(profile, preds, weeks=request.weeks, ...)
Plan ==
    /\ pc = "refined"
    /\ IF ScheduleRaises(preds, days)
       THEN /\ pc' = "failed"
            /\ err' = "ZeroDivisionError"
            /\ UNCHANGED <<baseSchedule, weekPreds, plan>>
       ELSE LET base == schedule_exercises(preds, days)
                view == View(heap, preds)
            IN  /\ pc' = "planned"
                /\ baseSchedule' = base
                /\ weekPreds' = [k \in 1..weeks |-> PlanWeekPreds(view, k - 1)]
                /\ plan' = call_llm_for_plan(view, base, weeks)
                /\ UNCHANGED err
    /\ UNCHANGED <<catalogFile, db, equipment, injuries, goal, days, weeks,
                   heap, inputPreds, preds, subs, multiweek, parseRequest,
                   parseResponse>>

\* generate_multiweek(preds, weeks) on the refined base week
Multiweek ==
    /\ pc = "planned"
    /\ pc' = "done"
    /\ multiweek' = generate_multiweek(View(heap, preds), weeks)
    /\ UNCHANGED <<err, catalogFile, db, equipment, injuries, goal, days,
                   weeks, heap, inputPreds, preds, subs, baseSchedule,
                   weekPreds, plan, parseRequest, parseResponse>>

----------------------------------------------------------------------------
(* The /parse endpoint of parse_message                                    *)

\* what the body of the try block does: the exception it raises, "none"
\* when it returns, and the profile it returns; a message that is true and
\* no character string is a number, whose .lower() does not exist
ParseTry(request) ==
    LET message == DictGet(request, "message", StrValue(<<>>))
    IN  IF ~Truthy(message)
        THEN [raised |-> "HTTPException", text |-> "400: Message is required",
              profile |-> <<>>]
        ELSE IF message.type # "str"
        THEN [raised |-> "AttributeError",
              text |-> "'int' object has no attribute 'lower'",
              profile |-> <<>>]
        ELSE [raised |-> "none", text |-> "",
              profile |-> <<parse_natural_language_input(message.str)>>]

\* the except clause catches every Exception, the HTTPException raised in
\* the try block included, and answers with status 500
ParseAnswer(request) ==
    LET r == ParseTry(request)
    IN  IF r.raised = "none"
        THEN [status |-> 200, detail |-> <<>>, content |-> r.profile]
        ELSE [status |-> 500,
              detail |-> <<"Error parsing message: ", r.text>>,
              content |-> <<>>]

parse_message ==
    /\ pc = "parse"
    /\ pc' = "answered"
    /\ parseResponse' = ParseAnswer(parseRequest)
    /\ UNCHANGED <<err, catalogFile, db, equipment, injuries, goal, days,
                   weeks, heap, inputPreds, preds, subs, baseSchedule,
                   weekPreds, plan, multiweek, parseRequest>>

----------------------------------------------------------------------------

Next == Substitute \/ Refine \/ Plan \/ Multiweek \/ parse_message

Spec == Init /\ [][Next]_vars

----------------------------------------------------------------------------
(* Vocabulary of the properties                                            *)

\* the profile's injury set: the non-empty entries, stripped and lower-cased
InjurySet ==
    {Lower(Strip(injuries[j])) :
        j \in {k \in 1..Len(injuries) : injuries[k] # <<>>}}

\* a catalog record with a body part in the injury set
RecordInjured(rec) ==
    \E b \in 1..Len(rec.bodyParts) : Lower(rec.bodyParts[b]) \in InjurySet

Substituted == pc \in {"substituted", "refined", "planned", "done"}

Refined == pc \in {"refined", "planned", "done"}

Planned == pc \in {"planned", "done"}

\* the exercise names placed on some day of some week of the plan
PlanNames ==
    UNION {{plan[w][d][i].name : i \in 1..Len(plan[w][d])} :
              <<w, d>> \in (1..Len(plan)) \X (1..7)}

\* the cap table of the specification
CapTable ==
    [mg \in {s_legs, s_chest, s_back, s_shoulders, s_posterior_chain} |->
        IF mg = s_legs THEN 25
        ELSE IF mg = s_shoulders THEN 15
        ELSE 20]

\* total sets of the exercises of a map that are mapped to group mg
GroupSets(h, m, mg) ==
    SumSeq([i \in 1..Len(m) |->
        IF muscle_map_get(m[i].name) = mg THEN h[m[i].ref].sets ELSE 0])

\* total sets a week of the plan gives to group mg, over all its days
WeekGroupSets(wk, mg) ==
    SumSeq([d \in 1..7 |->
        SumSeq([i \in 1..Len(wk[d]) |->
            IF muscle_map_get(wk[d][i].name) = mg THEN wk[d][i].sets
            ELSE 0])])

\* the refined base week as name -> parameters
Base == View(heap, preds)

----------------------------------------------------------------------------
(* Substitution and injuries                                               *)

\* C1: every exercise substitute_exercises introduces as a substitute is a
\* catalog record, present as an output key under its catalog name, none of
\* whose lower-cased body parts is in the injury set.
C1_SubstitutesAvoidInjuries ==
    Substituted =>
        \A i \in 1..Len(subs) :
            subs[i].outcome = "substituted" =>
                /\ subs[i].rec \in 1..Len(db)
                /\ db[subs[i].rec].name = subs[i].key
                /\ DictHas(preds, subs[i].key)
                /\ ~RecordInjured(db[subs[i].rec])

\* a contraindicated original was replaced while another record that
\* matches its muscle group was passed over because it hits the injury
C1_Witness ==
    /\ pc = "substituted"
    /\ \E i \in 1..Len(subs) :
        /\ subs[i].outcome = "substituted"
        /\ RecordInjured(db[subs[i].found])
        /\ \E j \in 1..Len(db) :
            /\ j < subs[i].rec
            /\ RecordInjured(db[j])
            /\ MatchMuscle(db[j], muscle_map_get(subs[i].ex))

\* C2 as stated: no name of the final plan resolves to a catalog record with
\* a body part in the injury set, flagged originals without substitute
\* included.
C2_PlanAvoidsInjuries ==
    Planned =>
        \A name \in PlanNames :
            FindExact(db, name) # 0 => ~RecordInjured(db[FindExact(db, name)])

\* C2 amended: every name of the final plan is the output key of some
\* original; an original kept unchanged resolved to no record or to a record
\* without injured body part, a substitute's record has no injured body
\* part; only originals for which no substitute existed stay in the plan
\* although contraindicated, under their own name.
C2_PlanAvoidsInjuriesUnlessReduced ==
    Planned =>
        /\ \A name \in PlanNames : \E i \in 1..Len(subs) : subs[i].key = name
        /\ \A i \in 1..Len(subs) :
            subs[i].key \in PlanNames =>
                /\ subs[i].outcome = "kept" =>
                    (subs[i].found = 0 \/ ~RecordInjured(db[subs[i].found]))
                /\ subs[i].outcome = "substituted" =>
                    ~RecordInjured(db[subs[i].rec])
                /\ subs[i].outcome = "reduced" => subs[i].key = subs[i].ex

\* the plan holds a contraindicated original that had no substitute, next
\* to an exercise that was kept because its record is safe
C2_Witness ==
    /\ pc = "planned"
    /\ \E i, j \in 1..Len(subs) :
        /\ subs[i].outcome = "reduced"
        /\ RecordInjured(db[subs[i].found])
        /\ subs[i].key \in PlanNames
        /\ subs[j].outcome = "kept"
        /\ subs[j].found # 0
        /\ subs[j].key \in PlanNames

----------------------------------------------------------------------------
(* Weekly caps                                                             *)

CapsHold ==
    \A mg \in DOMAIN CapTable : GroupSets(heap, preds, mg) <= CapTable[mg]

\* sets of entry i after the goal adjustment, and its group's total then
AdjustedSets(i) == Adjust(heap[preds[i].ref], goal).sets

AdjustedTotal(mg) ==
    SumSeq([j \in 1..Len(preds) |->
        IF muscle_map_get(preds[j].name) = mg THEN AdjustedSets(j) ELSE 0])

RefineStep ==
    (pc = "substituted" /\ pc' = "refined") =>
        \A i \in 1..Len(preds) :
            LET mg == muscle_map_get(preds[i].name)
            IN  mg \in DOMAIN CapTable =>
                    heap'[preds[i].ref].sets =
                        IF AdjustedTotal(mg) > CapTable[mg]
                        THEN Max2(1, RoundHalfEven(
                                 AdjustedSets(i) * CapTable[mg],
                                 AdjustedTotal(mg)))
                        ELSE AdjustedSets(i)

\* C3: once refine_predictions has returned, every group of the cap table
\* has a total of sets at most its cap, for every goal; the call sets each
\* exercise of an over-cap group to max(1, round(sets * cap / groupSum)) and
\* leaves the sets of the other capped groups as adjusted.
C3_CapsAfterRefine ==
    [][(Refined' => CapsHold') /\ RefineStep]_vars

\* squats above the legs cap came out of the refinement at the cap
C3_Witness ==
    /\ pc = "refined"
    /\ \E i \in 1..Len(preds) :
        /\ preds[i].name = k_Squat
        /\ heap[preds[i].ref].sets = 25

\* C4 as stated: after refine_predictions the exercises outside the
\* exercise-to-muscle-group table total at most the default cap of 30.
C4_OtherBucketCapped ==
    Refined => GroupSets(heap, preds, None) <= 30

\* C5 as stated: in every week of the plan every capped group totals at most
\* cap + 1, whatever the week count.
C5_WeeklyCapPlusOne ==
    Planned =>
        \A w \in 1..Len(plan) : \A mg \in DOMAIN CapTable :
            WeekGroupSets(plan[w], mg) <= CapTable[mg] + 1

\* C5 amended: in week index w of the plan every capped group totals at
\* most cap + (w div 2); that is within cap + 1 up to week index 3 only.
C5_WeeklyCapPlusProgression ==
    Planned =>
        \A w \in 1..Len(plan) : \A mg \in DOMAIN CapTable :
            /\ WeekGroupSets(plan[w], mg) <= CapTable[mg] + ((w - 1) \div 2)
            /\ w <= 4 => WeekGroupSets(plan[w], mg) <= CapTable[mg] + 1

\* a five-week plan whose squats sit at the cap in week 0 and two above it
\* in week index 4
C5_Witness ==
    /\ pc = "planned"
    /\ Len(plan) >= 5
    /\ WeekGroupSets(plan[1], s_legs) = 25
    /\ WeekGroupSets(plan[5], s_legs) = 27

----------------------------------------------------------------------------
(* Progression                                                             *)

\* week-over-week comparison of two parameter records of one exercise
NotLess(later, earlier) ==
    /\ later.name = earlier.name
    /\ later.sets >= earlier.sets
    /\ later.intensity >= earlier.intensity
    /\ later.reps = earlier.reps

\* C6: for every exercise and all week indices w1 < w2, sets and intensity
\* of week w2 are at least those of week w1 and reps are equal, in the weeks
\* of generate_multiweek and in the plan of call_llm_for_plan.
C6_ProgressionMonotone ==
    /\ Planned =>
        \A w1, w2 \in 1..Len(plan) :
            w1 < w2 =>
                \A d \in 1..7 :
                    /\ Len(plan[w2][d]) = Len(plan[w1][d])
                    /\ \A i \in 1..Len(plan[w1][d]) :
                        NotLess(plan[w2][d][i], plan[w1][d][i])
    /\ pc = "done" =>
        \A w1, w2 \in 1..Len(multiweek) :
            w1 < w2 =>
                \A i \in 1..Len(multiweek[w1]) :
                    NotLess(multiweek[w2][i], multiweek[w1][i])

\* four or more weeks in which one exercise gained sets while another one
\* stayed at the intensity ceiling
C6_Witness ==
    /\ pc = "done"
    /\ Len(multiweek) >= 4
    /\ \E i, j \in 1..Len(Base) :
        /\ multiweek[4][i].sets > multiweek[1][i].sets
        /\ multiweek[1][j].intensity = 10
        /\ multiweek[4][j].intensity = 10
    /\ \E d \in 1..7 :
        /\ plan[1][d] # <<>>
        /\ plan[4][d][1].sets > plan[1][d][1].sets

\* the closed form of the progression for week index w
ClosedForm(e, w) ==
    [name |-> e.name,
     sets |-> e.sets + (w \div 2),
     reps |-> e.reps,
     intensity |-> IF e.intensity + (w \div 2) > 10 THEN 10
                   ELSE e.intensity + (w \div 2)]

InRange(e) == e.sets >= 1 /\ e.intensity \in 1..10

\* C7: for every base entry with sets >= 1 and intensity in 1..10 and every
\* week index w, generate_multiweek and the loop of call_llm_for_plan both
\* give sets + (w div 2), min(10, intensity + (w div 2)) and the base reps,
\* so they agree and week 0 is the base week.
C7_ProgressionClosedForm ==
    /\ Planned =>
        \A k \in 1..Len(weekPreds) : \A i \in 1..Len(Base) :
            InRange(Base[i]) =>
                /\ weekPreds[k][i] = ClosedForm(Base[i], k - 1)
                /\ weekPreds[1][i] = Base[i]
    /\ pc = "done" =>
        \A k \in 1..Len(multiweek) : \A i \in 1..Len(Base) :
            InRange(Base[i]) =>
                /\ multiweek[k][i] = ClosedForm(Base[i], k - 1)
                /\ multiweek[k][i] = weekPreds[k][i]
                /\ multiweek[1][i] = Base[i]

\* the example of the specification: base sets 3 and intensity 5 give sets 4
\* and intensity 6 at week index 3, in both implementations
C7_Witness ==
    /\ pc = "done"
    /\ Len(multiweek) >= 4
    /\ \E i \in 1..Len(Base) :
        /\ Base[i].sets = 3
        /\ Base[i].intensity = 5
        /\ multiweek[4][i].sets = 4
        /\ multiweek[4][i].intensity = 6
        /\ weekPreds[4][i].sets = 4
        /\ weekPreds[4][i].intensity = 6

\* C8: in every week of the plan every exercise name placed on a day is a
\* key of that week's progressed prediction map, and the parameters shown
\* with it are that week's parameters of that name.
C8_NoDanglingReferences ==
    Planned =>
        /\ Len(plan) = Len(weekPreds)
        /\ \A w \in 1..Len(plan) : \A d \in 1..7 :
            \A i \in 1..Len(plan[w][d]) :
                \E k \in 1..Len(weekPreds[w]) :
                    /\ weekPreds[w][k].name = plan[w][d][i].name
                    /\ weekPreds[w][k] = plan[w][d][i]

\* a week whose parameters differ from the base week's, with an exercise
\* placed on two days
C8_Witness ==
    /\ pc = "planned"
    /\ Len(plan) >= 3
    /\ \E d \in 1..7 :
        /\ plan[3][d] # <<>>
        /\ plan[3][d][1] # plan[1][d][1]
    /\ \E d1, d2 \in 1..7 :
        /\ d1 # d2
        /\ plan[3][d1] # <<>>
        /\ plan[3][d2] # <<>>
        /\ plan[3][d1][Len(plan[3][d1])].name = plan[3][d2][1].name

----------------------------------------------------------------------------
(* Errors                                                                  *)

\* C9 as stated: with the catalog file missing or malformed the load
\* degrades to an empty catalog, so substitute_exercises does not raise and
\* passes every exercise through.
C9_CatalogFailureDegrades ==
    (catalogFile # "ok" /\ pc # "start") =>
        /\ pc # "failed"
        /\ err = "none"
        /\ View(heap, preds) = View(heap, inputPreds)

\* C10: with a loadable catalog no stage raises: on every request, empty
\* maps, zero sets and every daysPerWeek in 1..7 included, no exception is
\* recorded and the pipeline is never in its failed state.
C10_NoStageRaises ==
    catalogFile = "ok" =>
        /\ err = "none"
        /\ pc # "failed"

\* a plan was built from a map with a capped group whose total sets is zero
C10_Witness ==
    /\ pc = "done"
    /\ catalogFile = "ok"
    /\ \E i \in 1..Len(preds) :
        /\ preds[i].name = k_Squat
        /\ heap[preds[i].ref].sets = 0
        /\ GroupSets(heap, preds, s_legs) = 0

----------------------------------------------------------------------------
(* Frame conditions of the stages                                          *)

\* the step in which substitute_exercises returns its map
SubstituteReturns == pc = "start" /\ pc' = "substituted"

\* the step in which refine_predictions returns
RefineReturns == pc = "substituted" /\ pc' = "refined"

\* C11: when substitute_exercises returns, its input map has the same keys
\* in the same order and every key maps to the same sets, reps and intensity
\* as before the call, whichever branch each exercise took.
C11_SubstituteLeavesInput ==
    [][SubstituteReturns =>
          /\ inputPreds' = inputPreds
          /\ View(heap', inputPreds) = View(heap, inputPreds)]_vars

\* one call took all three branches, and the volume-reduced exercise left
\* the call with fewer sets than the input still shows for it
C11_Witness ==
    /\ pc = "substituted"
    /\ \E i, j, k \in 1..Len(subs) :
        /\ subs[i].outcome = "kept"
        /\ subs[j].outcome = "substituted"
        /\ subs[k].outcome = "reduced"
        /\ Value(heap, preds, subs[k].key).sets
               < Value(heap, inputPreds, subs[k].ex).sets

\* C12 as stated: after refine_predictions the map it was given still holds
\* the sets, reps and intensity it held before the call, for every goal and
\* whether or not a cap was exceeded.
C12_RefineLeavesInput ==
    [][RefineReturns => View(heap', preds) = View(heap, preds)]_vars

\* C13 as stated: the map substitute_exercises returns shares no parameter
\* record with its input, and after refine_predictions has run on that map
\* the map handed to substitute_exercises is unchanged.
C13_NoAliasing ==
    /\ [](pc = "substituted" =>
            \A i \in 1..Len(preds), j \in 1..Len(inputPreds) :
                preds[i].ref # inputPreds[j].ref)
    /\ [][RefineReturns =>
            View(heap', inputPreds) = View(heap, inputPreds)]_vars

----------------------------------------------------------------------------
(* The substitution resolver, exercise by exercise                         *)

\* the record an exercise name resolves to: the first one in catalog order
\* whose name contains the exercise name, case-insensitively; 0 if none
FirstByName(name) ==
    IF \E j \in 1..Len(db) : Contains(Lower(db[j].name), Lower(name))
    THEN CHOOSE j \in 1..Len(db) :
            /\ Contains(Lower(db[j].name), Lower(name))
            /\ \A k \in 1..(j - 1) :
                ~Contains(Lower(db[k].name), Lower(name))
    ELSE 0

\* the equipment modes of the specification
ModeAllowAll == equipment.isStr /\ Lower(equipment.str) = s_gym

ModeDumbbells == equipment.isStr /\ Lower(equipment.str) = s_dumbbells

ModeBodyweight == equipment.isStr /\ ~ModeAllowAll /\ ~ModeDumbbells

\* the allowed-equipment set of the mode
AllowedByMode ==
    IF ModeDumbbells
    THEN {s_dumbbell, s_body_weight, s_band, s_kettlebell}
    ELSE IF ModeBodyweight THEN {s_body_weight}
    ELSE IF ModeAllowAll THEN {}
    ELSE equipment.set

RecordAvailable(rec) ==
    \/ ModeAllowAll
    \/ \E e \in 1..Len(rec.equipments) :
            Lower(rec.equipments[e]) \in AllowedByMode

\* the record's body parts or target muscles contain the group
RecordServes(rec, mg) ==
    \/ \E b \in 1..Len(rec.bodyParts) : Lower(rec.bodyParts[b]) = mg
    \/ \E m \in 1..Len(rec.targetMuscles) : Lower(rec.targetMuscles[m]) = mg

\* the three conditions on a substitute for the exercise called name
Eligible(rec, name) ==
    /\ muscle_map_get(name) # None
    /\ RecordServes(rec, muscle_map_get(name))
    /\ ~RecordInjured(rec)
    /\ RecordAvailable(rec)

\* the first eligible record in catalog order; 0 if none
FirstEligible(name) ==
    IF \E j \in 1..Len(db) : Eligible(db[j], name)
    THEN CHOOSE j \in 1..Len(db) :
            /\ Eligible(db[j], name)
            /\ \A k \in 1..(j - 1) : ~Eligible(db[k], name)
    ELSE 0

\* the exercise resolves to a record that is neither injured nor unavailable
Keepable(name) ==
    /\ FirstByName(name) # 0
    /\ ~RecordInjured(db[FirstByName(name)])
    /\ RecordAvailable(db[FirstByName(name)])

\* the exercise resolves to a record that is contraindicated or unavailable
OriginalFlagged(name) == FirstByName(name) # 0 /\ ~Keepable(name)

\* the parameters of the i-th exercise of the input before the call
Original(i) == heap[inputPreds[i].ref]

\* the map substitute_exercises returns
OutHas(name) == DictHas(preds', name)

OutValue(name) == Value(heap', preds', name)

\* y is max(1, r) for an integer r nearest to 0.7 * x
IsSeventyPercent(y, x) ==
    \E r \in 0..x :
        /\ 10 * r - 7 * x <= 5
        /\ 7 * x - 10 * r <= 5
        /\ y = Max2(1, r)

\* a chest exercise that needs body weight only and hits no injured part
ChestBodyweight(rec) ==
    /\ RecordServes(rec, s_chest)
    /\ \E e \in 1..Len(rec.equipments) : Lower(rec.equipments[e]) = s_body_weight
    /\ ~RecordInjured(rec)

\* C14 as stated: with bodyweight-only equipment and a predicted "Bench
\* Press" whose record requires the barbell only, the output replaces "Bench
\* Press" by a chest exercise with body weight that hits no injured body
\* part if the catalog has one, and only otherwise keeps "Bench Press" with
\* sets and intensity reduced by 30%.
C14_BenchPressReplaced ==
    [][(/\ SubstituteReturns
        /\ ModeBodyweight
        /\ DictHas(inputPreds, k_Bench_Press)
        /\ FirstByName(k_Bench_Press) # 0
        /\ db[FirstByName(k_Bench_Press)].equipments = <<s_barbell>>)
       => IF \E j \in 1..Len(db) : ChestBodyweight(db[j])
          THEN /\ ~OutHas(k_Bench_Press)
               /\ \E j \in 1..Len(db) :
                    ChestBodyweight(db[j]) /\ OutHas(db[j].name)
          ELSE /\ OutHas(k_Bench_Press)
               /\ IsSeventyPercent(
                      OutValue(k_Bench_Press).sets,
                      Value(heap, inputPreds, k_Bench_Press).sets)
               /\ IsSeventyPercent(
                      OutValue(k_Bench_Press).intensity,
                      Value(heap, inputPreds, k_Bench_Press).intensity)]_vars

C17_FirstEligibleSubstitute ==
    [][SubstituteReturns =>
          \A i \in 1..Len(inputPreds) :
              OriginalFlagged(inputPreds[i].name) =>
                  IF FirstEligible(inputPreds[i].name) # 0
                  THEN /\ subs'[i].outcome = "substituted"
                       /\ subs'[i].rec = FirstEligible(inputPreds[i].name)
                       /\ subs'[i].key =
                            db[FirstEligible(inputPreds[i].name)].name
                       /\ OutHas(subs'[i].key)
                       /\ \A k \in 1..(subs'[i].rec - 1) :
                            ~Eligible(db[k], inputPreds[i].name)
                  ELSE subs'[i].outcome = "reduced"]_vars

\* the substitute chosen stands between an earlier record of the same group
\* that is not eligible and a later record that is
C17_Witness ==
    /\ pc = "substituted"
    /\ \E i \in 1..Len(subs) :
        /\ subs[i].outcome = "substituted"
        /\ \E j \in 1..(subs[i].rec - 1) :
            /\ RecordServes(db[j], muscle_map_get(subs[i].ex))
            /\ ~Eligible(db[j], subs[i].ex)
        /\ \E j \in (subs[i].rec + 1)..Len(db) : Eligible(db[j], subs[i].ex)

\* C18 as stated: for every flagged exercise E with a substitute S, the
\* output has no key E unless E is the name of S, and binds the name of S to
\* the sets, reps and intensity E had, for every such E of the call.
C18_SubstituteCarriesParameters ==
    [][SubstituteReturns =>
          \A i \in 1..Len(inputPreds) :
              (/\ OriginalFlagged(inputPreds[i].name)
               /\ FirstEligible(inputPreds[i].name) # 0) =>
                  LET E == inputPreds[i].name
                      S == db[FirstEligible(inputPreds[i].name)].name
                  IN  /\ E # S => ~OutHas(E)
                      /\ OutHas(S)
                      /\ OutValue(S) = Original(i)]_vars

----------------------------------------------------------------------------
(* Goal adjustment                                                         *)

\* the goal adjustment of the specification, value by value
GoalSets(v) ==
    IF goal = "Muscle Gain" THEN RoundHalfEven(105 * v.sets, 100) ELSE v.sets

GoalReps(v) ==
    IF goal = "Strength" THEN Max2(3, v.reps - 1)
    ELSE IF goal = "Endurance" THEN v.reps + 2
    ELSE v.reps

GoalIntensity(v) ==
    IF goal = "Strength" THEN Min2(10, v.intensity + 1)
    ELSE IF goal = "Endurance" THEN Max2(1, v.intensity - 1)
    ELSE v.intensity

\* the total of a group over the goal-adjusted sets of its exercises
GoalTotal(mg) ==
    SumSeq([j \in 1..Len(preds) |->
        IF muscle_map_get(preds[j].name) = mg
        THEN GoalSets(heap[preds[j].ref]) ELSE 0])

\* C20: refine_predictions gives every exercise the reps and intensity of
\* the goal table (Strength: intensity + 1 up to 10, reps - 1 down to 3;
\* Endurance: reps + 2, intensity - 1 down to 1; any other or no goal: as
\* they were) and the sets round(1.05 * sets) for Muscle Gain, its own sets
\* otherwise; the caps are computed on these adjusted sets, so an exercise
\* of a group within its cap leaves the call with exactly the adjusted sets.
C20_GoalAdjustment ==
    [][RefineReturns =>
          \A i \in 1..Len(preds) :
              LET v == heap[preds[i].ref]
                  w == heap'[preds[i].ref]
                  mg == muscle_map_get(preds[i].name)
              IN  /\ w.reps = GoalReps(v)
                  /\ w.intensity = GoalIntensity(v)
                  /\ w.sets =
                        IF mg \in DOMAIN CapTable /\ GoalTotal(mg) > CapTable[mg]
                        THEN Max2(1, RoundHalfEven(GoalSets(v) * CapTable[mg],
                                                   GoalTotal(mg)))
                        ELSE GoalSets(v)]_vars

\* a Muscle Gain request left the refinement with 33 sets for an exercise
\* predicted with 31 and with 3 sets for one predicted with 3
C20_Witness ==
    /\ pc = "refined"
    /\ goal = "Muscle Gain"
    /\ \E i, j \in 1..Len(preds) :
        /\ heap[preds[i].ref].sets = 33
        /\ heap[preds[i].ref].reps = 8
        /\ heap[preds[j].ref].sets = 3
        /\ heap[preds[j].ref].reps = 10

----------------------------------------------------------------------------
(* Weekly schedule                                                         *)

\* the training days the specification fixes for a day count
TrainingDaySet(d) ==
    IF d = 1 THEN {3}
    ELSE IF d = 2 THEN {1, 4}
    ELSE IF d = 3 THEN {1, 3, 5}
    ELSE IF d = 4 THEN {1, 2, 4, 5}
    ELSE IF d = 5 THEN {1, 2, 3, 5, 6}
    ELSE IF d = 6 THEN 1..6
    ELSE 1..7

\* the names scheduled on a day, in order
DayNames(sched, d) == [i \in 1..Len(sched[d]) |-> sched[d][i].name]

\* C21: the schedule has exactly the day keys 1..7, and every day outside
\* the training days fixed by daysPerWeek is an empty list, in the base
\* schedule and in every week of the plan built on it.
C21_ScheduleOnTrainingDays ==
    Planned =>
        /\ DOMAIN baseSchedule = 1..7
        /\ \A d \in (1..7) \ TrainingDaySet(days) : baseSchedule[d] = <<>>
        /\ \A w \in 1..Len(plan) :
            /\ DOMAIN plan[w] = 1..7
            /\ \A d \in (1..7) \ TrainingDaySet(days) : plan[w][d] = <<>>

\* five training days: exercises on days 5 and 6, rest on days 4 and 7
C21_Witness ==
    /\ pc = "planned"
    /\ days = 5
    /\ baseSchedule[5] # <<>>
    /\ baseSchedule[6] # <<>>
    /\ baseSchedule[4] = <<>>
    /\ baseSchedule[7] = <<>>

\* the categories of the specification, in priority order, and their keywords
Categories == <<"push", "pull", "legs", "stretch", "other">>

KeywordsOf(c) ==
    IF c = "push" THEN push
    ELSE IF c = "pull" THEN pull
    ELSE IF c = "legs" THEN legs
    ELSE IF c = "stretch" THEN stretch
    ELSE {}

\* the name contains a keyword of the category, case-insensitively
MatchesKeyword(ex, c) ==
    \E p \in KeywordsOf(c) : Contains(Lower(ex), Lower(p))

\* the first category in priority order that matches the name
FirstCategory(ex) ==
    IF MatchesKeyword(ex, "push") THEN "push"
    ELSE IF MatchesKeyword(ex, "pull") THEN "pull"
    ELSE IF MatchesKeyword(ex, "legs") THEN "legs"
    ELSE IF MatchesKeyword(ex, "stretch") THEN "stretch"
    ELSE "other"

\* the list schedule_exercises builds for a category
BucketOf(c, exs) ==
    IF c = "push" THEN push_exercises(exs)
    ELSE IF c = "pull" THEN pull_exercises(exs)
    ELSE IF c = "legs" THEN leg_exercises(exs)
    ELSE IF c = "stretch" THEN stretch_exercises(exs)
    ELSE other_exercises(exs)

\* how often a name is scheduled in the week
Occurrences(sched, ex) ==
    SumSeq([d \in 1..7 |->
        Len(SelectSeq(sched[d], LAMBDA p : p.name = ex))])

\* C22 as stated: for daysPerWeek >= 3 every exercise name is in exactly
\* one category list, the first category in the order push, pull, legs,
\* stretch, other with a keyword the name contains case-insensitively, and
\* a name whose category is not stretch is scheduled exactly once in the
\* week (a stretch once, or once on every training day).
C22_OneBucketPerExercise ==
    (Planned /\ days >= 3) =>
        \A i \in 1..Len(preds) :
            /\ \A k \in 1..Len(Categories) :
                InList(preds[i].name, BucketOf(Categories[k], Keys(preds)))
                    <=> Categories[k] = FirstCategory(preds[i].name)
            /\ Occurrences(baseSchedule, preds[i].name)
                    \in {1, Cardinality(TrainingDaySet(days))}
            /\ FirstCategory(preds[i].name) # "stretch" =>
                    Occurrences(baseSchedule, preds[i].name) = 1

\* the training days in ascending order
TrainingDaySeq(d) ==
    SelectSeq(<<1, 2, 3, 4, 5, 6, 7>>, LAMBDA x : x \in TrainingDaySet(d))

\* the non-empty ones of the lists for push, pull, legs and other, in order
DayCategories(exs) ==
    SelectSeq(<<push_exercises(exs), pull_exercises(exs), leg_exercises(exs),
                other_exercises(exs)>>, LAMBDA grp : grp # <<>>)

\* the names of exs whose position i (from 0) has i mod n = r
EveryNth(exs, n, r) ==
    LET idx == SelectSeq([i \in 1..Len(exs) |-> i],
                         LAMBDA i : (i - 1) % n = r)
    IN  [k \in 1..Len(idx) |-> exs[idx[k]]]

\* C23: for daysPerWeek >= 3, with the exercises listed under push, pull,
\* legs and other as the categories that take a day: when the non-empty ones
\* are at most as many as the training days, the i-th of them is the whole
\* content of the i-th training day, followed on every training day by all
\* stretch exercises; otherwise the exercise at position i of the map (from
\* 0) is on training day i mod n, whatever its category.
C23_CategoryPerDayOrRoundRobin ==
    (Planned /\ days >= 3) =>
        LET exs == Keys(preds)
            cats == DayCategories(exs)
            tds == TrainingDaySeq(days)
            n == Len(tds)
        IN  IF Len(cats) <= n
            THEN \A k \in 1..n :
                    DayNames(baseSchedule, tds[k]) =
                        (IF k <= Len(cats) THEN cats[k] ELSE <<>>)
                        \o stretch_exercises(exs)
            ELSE \A k \in 1..n :
                    DayNames(baseSchedule, tds[k]) = EveryNth(exs, n, k - 1)

\* the scenario of the specification: Squat, Bench and Row with three
\* training days have days 1, 3 and 5 to themselves
C23_Witness ==
    /\ pc = "planned"
    /\ days = 3
    /\ Keys(preds) = <<k_Squat, k_Bench, k_Row>>
    /\ Len(baseSchedule[1]) = 1
    /\ Len(baseSchedule[3]) = 1
    /\ Len(baseSchedule[5]) = 1

\* C24: the plan has exactly as many weeks as requested, and in every week
\* every day 1..7 lists the names of the base schedule in the same order,
\* each with the reps of the base week; only sets and intensity vary.
C24_PlanFollowsBaseSchedule ==
    Planned =>
        /\ Len(plan) = weeks
        /\ \A w \in 1..Len(plan) : \A d \in 1..7 :
            /\ DayNames(plan[w], d) = DayNames(baseSchedule, d)
            /\ \A i \in 1..Len(plan[w][d]) :
                plan[w][d][i].reps = heap[baseSchedule[d][i].ref].reps

\* a three-week plan with a day of two or more exercises whose sets in the
\* third week are above those of the first
C24_Witness ==
    /\ pc = "planned"
    /\ weeks = 3
    /\ Len(plan) = 3
    /\ \E d \in 1..7 :
        /\ Len(baseSchedule[d]) >= 2
        /\ DayNames(plan[3], d) = DayNames(plan[1], d)
        /\ plan[3][d][2].sets > plan[1][d][2].sets

\* C26: for every prediction map and every daysPerWeek in 1..7, every key
\* of the map is scheduled on at least one day of the schedule, in
\* category-per-day mode and in round-robin mode, and so in every week of
\* the plan.
C26_EveryExerciseScheduled ==
    Planned =>
        \A i \in 1..Len(preds) :
            /\ \E d \in 1..7 :
                InList(preds[i].name, DayNames(baseSchedule, d))
            /\ \A w \in 1..Len(plan) : \E d \in 1..7 :
                InList(preds[i].name, DayNames(plan[w], d))

\* category-per-day mode with an uncategorised exercise and a pure stretch
\* next to push, pull and legs exercises, all of them scheduled
C26_Witness ==
    /\ pc = "planned"
    /\ days = 4
    /\ Len(DayCategories(Keys(preds))) = 4
    /\ DictHas(preds, k_Plank)
    /\ DictHas(preds, k_Calf_Stretch)
    /\ Occurrences(baseSchedule, k_Plank) = 1
    /\ Occurrences(baseSchedule, k_Calf_Stretch) = 4

----------------------------------------------------------------------------
(* Error handling of the /parse endpoint                                   *)

\* the request body has no 'message' key
MessageMissing ==
    \A i \in 1..Len(parseRequest) : parseRequest[i].key # "message"

\* the request body holds the empty string under 'message'
MessageEmpty ==
    \E i \in 1..Len(parseRequest) :
        /\ parseRequest[i].key = "message"
        /\ parseRequest[i].value.type = "str"
        /\ parseRequest[i].value.str = <<>>

\* the parser is reached and raises: the message is a non-empty value that
\* is not a character string
ParsingRaises ==
    \E i \in 1..Len(parseRequest) :
        /\ parseRequest[i].key = "message"
        /\ parseRequest[i].value.type = "int"
        /\ parseRequest[i].value.int # 0

\* C25: a request to /parse whose body has no 'message' or an empty
\* 'message' is answered with status 400 and detail "Message is required";
\* status 500 is returned only when parsing itself raises.
C25_ParseRejectsEmptyMessage ==
    pc = "answered" =>
        /\ (MessageMissing \/ MessageEmpty) =>
              /\ parseResponse.status = 400
              /\ parseResponse.detail = <<"Message is required">>
        /\ parseResponse.status = 500 => ParsingRaises

====
